---- MODULE Spec2Model ----
(***************************************************************************)
(* Model of the offline data-preparation scripts of sqy-mumbai-poc:        *)
(*   scripts/preprocess_metrics.py  (the metrics aggregator)   -> SpecAgg   *)
(*   scripts/geo_validator.py       (the GeoJSON validator)    -> SpecGeo   *)
(*   scripts/make_dims.py           (the dimension builder)    -> SpecDims  *)
(* Each script is a single-threaded batch run; its model is a state        *)
(* machine whose steps are the blocks of its main().                       *)
(***************************************************************************)
EXTENDS Integers, Sequences, FiniteSets, TLC

(***************************************************************************)
(* Python values.  None is the empty tuple and a present value v is <<v>>, *)
(* so that None compares with everything.  A CSV field is a string; the    *)
(* string NoField stands for the None that csv.DictReader stores for a     *)
(* field the row is too short to hold.                                     *)
(***************************************************************************)
None == <<>>

Some(v) == <<v>>

Val(o) == o[1]

NoField == "<None>"

\* Python truthiness of an Optional[float]: None and 0.0 are falsy.
Truthy(o) == o # None /\ Val(o) # 0

\* Python truthiness of a field read with dict.get: None and "" are falsy.
TruthyField(s) == s # NoField /\ s # ""

(***************************************************************************)
(* Bounds of the model.                                                    *)
(***************************************************************************)
\* Total number of rows in the three metric CSVs together.
MaxRows == 3

\* The largest magnitude of a numeric literal that appears in a CSV field.
MaxLit == 21

\* argparse default of --min_sample.
DefaultMinSample == 20

(***************************************************************************)
(* Number parsing.  int() and float() are modelled on decimal literals:    *)
(* a literal is the text ToString gives for an integer in the range.       *)
(***************************************************************************)
LitRange == (0 - MaxLit)..MaxLit

\* The decimal literals of the range, and the integer each one denotes.
LitStrings == { ToString(n) : n \in LitRange }

LitValue == [ s \in LitStrings |-> CHOOSE n \in LitRange : ToString(n) = s ]

\* int(s) succeeds
IsIntLit(s) == s \in LitStrings

\* int(s)
IntOf(s) == LitValue[s]

NonFinite == {"nan", "inf", "-inf"}

\* f2: float(x) if it parses and is finite, else None.
f2(x) ==
  IF x = NoField THEN None                \* float(None): TypeError, caught
  ELSE IF x \in NonFinite THEN None       \* parses, but not isfinite
  ELSE IF IsIntLit(x) THEN Some(IntOf(x))
  ELSE None                               \* ValueError, caught

(***************************************************************************)
(* State.                                                                  *)
(***************************************************************************)
VARIABLES
  \* preprocess_metrics.main
  apc,          \* position in main: "start", "loop", "done", "aborted"
  min_sample,   \* args.min_sample
  A, R, N,      \* the three dicts key -> row (asking, registered, rent)
  pending,      \* keys of the set `keys` the for loop has not visited yet
  paints,       \* defaultdict(list): paint key -> list of points
  summaries,    \* the summary files written so far, in order
  choropleth,   \* the choropleth files written: paint key -> list of points
  \* geo_validator.main
  gpc,          \* position in main: "load", "layer", "feature", "cross", "report",
                \*   "done", "fatal" (sys.exit(1)), "aborted" (uncaught exception)
  layers,       \* file name -> list of features
  layer,        \* index in REQUIRED of the layer of the per-layer pass
  fi,           \* index of the next feature of that layer
  key_prop,     \* file name -> the key_prop chosen for the layer
  ids,          \* the set `ids` of the layer
  ids_seen,     \* file name -> set of ids
  errors,       \* the list `errors`
  warnings,     \* the list `warnings`
  report,       \* what was printed: None, or the errors and warnings
  \* make_dims.main
  dpc,          \* position in main: "read", "bhk", "assets", "city",
                \*   "micromarkets", "localities", "write", "done"
  masters,      \* the rows read_csv_any returned for the five master CSVs
  bhk,          \* the list `bhk`
  assets,       \* the list `assets`
  city,         \* `city`: None or the record
  micromarkets, \* the list `micromarkets`
  mm_name_by_id,\* the dict `mm_name_by_id`
  localities,   \* the list `localities`
  dims          \* the document written to dims.json, or None

aggVars == <<apc, min_sample, A, R, N, pending, paints, summaries, choropleth>>

geoVars == <<gpc, layers, layer, fi, key_prop, ids, ids_seen, errors, warnings, report>>

dimVars == <<dpc, masters, bhk, assets, city, micromarkets, mm_name_by_id, localities, dims>>

vars == <<aggVars, geoVars, dimVars>>

(***************************************************************************)
(* preprocess_metrics.py                                                   *)
(***************************************************************************)
\* Keys (Month, AssetType, BHK, LocalityID) that occur in the metric CSVs.
Keys == { <<"2025-01", "APT", "2", "1">>,
          <<"2025-01", "APT", "2", "2">> }

Metrics == {"asking", "registered", "rent"}

\* SampleSize fields: short row, empty, not a number, below / at the default threshold.
SampleFields == {NoField, "", "abc", ToString(DefaultMinSample - 1), ToString(DefaultMinSample)}

\* Value fields: empty, not finite, zero, negative, positive.
ValueFields == {"", "nan", "0", "-4", "5"}

\* The rows a CSV may hold for a key: every SampleSize with a positive
\* value, and every value with a SampleSize at the default threshold.
Rows ==
  { [SampleSize |-> s, Value |-> "5"] : s \in SampleFields } \cup
  { [SampleSize |-> ToString(DefaultMinSample), Value |-> v] : v \in ValueFields }

MinSamples == {DefaultMinSample - 1, DefaultMinSample}

Slots == Metrics \X Keys

\* dict.get(key): the row, or None.
Get(D, k) == IF k \in DOMAIN D THEN Some(D[k]) ELSE None

\* int(x["SampleSize"]) if x and x.get("SampleSize") else 0  -- raises ValueError
\* when the field is non-empty and not an integer literal.
SampleRaises(x) ==
  x # None /\ TruthyField(Val(x).SampleSize) /\ ~IsIntLit(Val(x).SampleSize)

SampleCount(x) ==
  IF x # None /\ TruthyField(Val(x).SampleSize) THEN IntOf(Val(x).SampleSize) ELSE 0

\* f2(x[<value column>]) if x else None
ValueOf(x) == IF x # None THEN f2(Val(x).Value) ELSE None

\* 12.0 * vN / vR as the fraction num/den.
YieldValue(vN, vR) == [num |-> 12 * Val(vN), den |-> Val(vR)]

\* The condition of the yield paint with the sample-size filter left out.
YieldPaintCond_noThreshold(vR, vN, nR, nN, ms) ==
  Truthy(vR) /\ Val(vR) > 0 /\ Truthy(vN)

\* line 59: the condition of the yield paint.
YieldPaintCond(vR, vN, nR, nN, ms) ==
  Truthy(vR) /\ Val(vR) > 0 /\ Truthy(vN) /\ nR >= ms /\ nN >= ms

\* The paint condition with the sample-size filter left out.
PaintCond_noThreshold(v, n, ms) == Truthy(v)

\* lines 63, 65, 67: the condition of an asking / registered / rent paint.
PaintCond(v, n, ms) == Truthy(v) /\ n >= ms

\* The summary yield without the test that the registered price is positive.
SummaryYield_anySign(vR, vN) ==
  IF Truthy(vR) /\ Truthy(vN) THEN Some(YieldValue(vN, vR)) ELSE None

\* line 73: the yield field of the summary.
SummaryYield(vR, vN) ==
  IF Truthy(vR) /\ Val(vR) > 0 /\ Truthy(vN) THEN Some(YieldValue(vN, vR)) ELSE None

PaintKey(metric, k) == <<metric, k[1], k[2], k[3]>>

\* paints[pk].append(pt) on a defaultdict(list)
AppendPaint(P, pk, pt) ==
  IF pk \in DOMAIN P THEN [P EXCEPT ![pk] = Append(@, pt)] ELSE P @@ (pk :> <<pt>>)

Point(k, value) == [id |-> IntOf(k[4]), value |-> value]

\* lines 59-68: the accumulator after the four conditional appends for key k.
PaintsAfter(P, k, vA, vR, vN, nA, nR, nN, ms) ==
  LET P1 == IF YieldPaintCond(vR, vN, nR, nN, ms)
            THEN AppendPaint(P, PaintKey("yield", k), Point(k, YieldValue(vN, vR))) ELSE P
      P2 == IF PaintCond(vA, nA, ms)
            THEN AppendPaint(P1, PaintKey("asking", k), Point(k, Val(vA))) ELSE P1
      P3 == IF PaintCond(vR, nR, ms)
            THEN AppendPaint(P2, PaintKey("registered", k), Point(k, Val(vR))) ELSE P2
      P4 == IF PaintCond(vN, nN, ms)
            THEN AppendPaint(P3, PaintKey("rent", k), Point(k, Val(vN))) ELSE P3
  IN P4

\* lines 70-75
Summary(k, vA, vR, vN, nA, nR, nN) ==
  [ month |-> k[1], asset |-> k[2], bhk |-> k[3], locality_id |-> IntOf(k[4]),
    median_asking |-> vA, median_registered |-> vR, median_rent |-> vN,
    yield |-> SummaryYield(vR, vN),
    counts |-> [asking |-> nA, registered |-> nR, rent |-> nN] ]

AggStart ==
  /\ apc = "start"
  /\ min_sample = DefaultMinSample
  /\ A = <<>> /\ R = <<>> /\ N = <<>>
  /\ pending = {}
  /\ paints = <<>>
  /\ summaries = <<>>
  /\ choropleth = <<>>

\* lines 25-44: parse the arguments, read the three CSVs into dicts, take the
\* union of their keys.
ReadMetrics ==
  /\ apc = "start"
  /\ \E ms \in MinSamples, S \in SUBSET Slots :
       /\ Cardinality(S) <= MaxRows
       /\ \E f \in [S -> Rows] :
            /\ min_sample' = ms
            /\ A' = [k \in {q \in Keys : <<"asking", q>> \in S} |-> f[<<"asking", k>>]]
            /\ R' = [k \in {q \in Keys : <<"registered", q>> \in S} |-> f[<<"registered", k>>]]
            /\ N' = [k \in {q \in Keys : <<"rent", q>> \in S} |-> f[<<"rent", k>>]]
  /\ pending' = DOMAIN A' \cup DOMAIN R' \cup DOMAIN N'
  /\ apc' = "loop"
  /\ UNCHANGED <<paints, summaries, choropleth>>

\* lines 46-79: one iteration of the loop over `keys` (a set: any order).
ProcessKey ==
  /\ apc = "loop"
  /\ \E k \in pending :
       LET a == Get(A, k)
           r == Get(R, k)
           n == Get(N, k)
       IN IF SampleRaises(a) \/ SampleRaises(r) \/ SampleRaises(n)
          THEN \* int() raises ValueError: main ends with a traceback
               /\ apc' = "aborted"
               /\ UNCHANGED <<pending, paints, summaries>>
          ELSE LET nA == SampleCount(a)
                   nR == SampleCount(r)
                   nN == SampleCount(n)
                   vA == ValueOf(a)
                   vR == ValueOf(r)
                   vN == ValueOf(n)
               IN /\ paints' = PaintsAfter(paints, k, vA, vR, vN, nA, nR, nN, min_sample)
                  /\ summaries' = Append(summaries, Summary(k, vA, vR, vN, nA, nR, nN))
                  /\ pending' = pending \ {k}
                  /\ apc' = "loop"
  /\ UNCHANGED <<min_sample, A, R, N, choropleth>>

\* lines 81-87: write one choropleth file per paint key.
WritePaints ==
  /\ apc = "loop"
  /\ pending = {}
  /\ choropleth' = paints
  /\ apc' = "done"
  /\ UNCHANGED <<min_sample, A, R, N, pending, paints, summaries>>

(***************************************************************************)
(* geo_validator.py                                                        *)
(***************************************************************************)
\* Total number of features in the three layers together.
MaxFeatures == 3

\* REQUIRED, in the order of the dict.
REQUIRED ==
  << [fname |-> "mumbai_city.geojson", props |-> <<"CityID", "CityName">>],
     [fname |-> "mumbai_micro_markets.geojson",
      props |-> <<"MicroMarketID", "CityID", "MicroMarketName">>],
     [fname |-> "mumbai_localities.geojson",
      props |-> <<"LocalityID", "MicroMarketID", "CityID", "LocalityName">>] >>

FileNames == { REQUIRED[i].fname : i \in DOMAIN REQUIRED }

Range(q) == { q[i] : i \in DOMAIN q }

\* p.endswith("ID")
EndsWithID(p) == Len(p) >= 2 /\ SubSeq(p, Len(p) - 1, Len(p)) = "ID"

\* [p for p in need if p.endswith("ID")][0]: `need` is a set of strings, whose
\* iteration order depends on the hash seed of the run, so the first match is
\* any of the matches.
KeyPropChoices(need) == { p \in need : EndsWithID(p) }

Flatten(qq) ==
  LET F[i \in 0..Len(qq)] == IF i = 0 THEN <<>> ELSE F[i - 1] \o qq[i]
  IN F[Len(qq)]

EmptyDict == <<>>

\* ft.get("properties", {}) and ft.get("geometry", {})
PropsOrEmpty(ft) == IF "properties" \in DOMAIN ft THEN ft.properties ELSE EmptyDict

GeomOrEmpty(ft) == IF "geometry" \in DOMAIN ft THEN ft.geometry ELSE EmptyDict

GeomType(geom) == IF "type" \in DOMAIN geom THEN geom.type ELSE "<None>"

SupportedTypes == {"Polygon", "MultiPolygon", "LineString", "MultiLineString", "Point"}

\* lines 21-31: the coordinate list of a geometry of a supported type.
Coords(geom) ==
  LET t == GeomType(geom)
  IN IF t = "Polygon" THEN geom.coordinates[1]
     ELSE IF t = "MultiPolygon"
       THEN Flatten([i \in DOMAIN geom.coordinates |-> geom.coordinates[i][1]])
     ELSE IF t = "LineString" THEN geom.coordinates
     ELSE IF t = "MultiLineString" THEN Flatten(geom.coordinates)
     ELSE <<geom.coordinates>>

\* bbox_of_geom raises: a Polygon without rings (IndexError), min() of no points.
BboxRaises(geom) ==
  /\ GeomType(geom) \in SupportedTypes
  /\ \/ GeomType(geom) = "Polygon" /\ geom.coordinates = <<>>
     \/ Coords(geom) = <<>>

SeqMin(q) == CHOOSE m \in Range(q) : \A x \in Range(q) : m <= x

SeqMax(q) == CHOOSE m \in Range(q) : \A x \in Range(q) : m >= x

\* bbox_of_geom: None, or (min lon, min lat, max lon, max lat).
bbox_of_geom(geom) ==
  IF GeomType(geom) \notin SupportedTypes THEN None
  ELSE LET c == Coords(geom)
           lons == [i \in DOMAIN c |-> c[i][1]]
           lats == [i \in DOMAIN c |-> c[i][2]]
       IN Some(<<SeqMin(lons), SeqMin(lats), SeqMax(lons), SeqMax(lats)>>)

\* centroid_of_geom, doubled to stay in the integers: (w+e, s+n).
centroid_of_geom(geom) ==
  LET b == bbox_of_geom(geom)
  IN IF b = None THEN None ELSE Some(<<Val(b)[1] + Val(b)[3], Val(b)[2] + Val(b)[4]>>)

\* point_in_bbox on a doubled point.
point_in_bbox(pt2, bbox) ==
  /\ 2 * bbox[1] <= pt2[1] /\ pt2[1] <= 2 * bbox[3]
  /\ 2 * bbox[2] <= pt2[2] /\ pt2[2] <= 2 * bbox[4]

\* line 87
InRange(b) ==
  /\ -180 <= b[1] /\ b[1] <= 180 /\ -180 <= b[3] /\ b[3] <= 180
  /\ -90 <= b[2] /\ b[2] <= 90 /\ -90 <= b[4] /\ b[4] <= 90

\* line 77: the required properties the feature lacks.
Missing(need, props) == { p \in need : p \notin DOMAIN props }

\* lines 78-83 with the skip left out: the ID joins the set whenever it is there.
IdsAfter_noSkip(s, need, props, kp) ==
  IF kp \in DOMAIN props THEN s \cup {props[kp]} ELSE s

\* lines 78-83: the set `ids` after the feature.
IdsAfter(s, need, props, kp) ==
  IF Missing(need, props) # {} THEN s ELSE s \cup {props[kp]}

(***************************************************************************)
(* The GeoJSON files the validator is run on.                              *)
(***************************************************************************)
GLine == [type |-> "LineString", coordinates |-> << <<0, 0>>, <<10, 10>> >>]

GIn == [type |-> "Point", coordinates |-> <<5, 5>>]

GFar == [type |-> "Point", coordinates |-> <<200, 5>>]

GNoPoints == [type |-> "LineString", coordinates |-> <<>>]

GOther == [type |-> "GeometryCollection"]

Feature(props, geom) == [properties |-> props, geometry |-> geom]

CityFeatures ==
  { Feature([CityID |-> 13, CityName |-> "Mumbai"], GLine),
    Feature([CityID |-> 13], GLine),
    [properties |-> [CityID |-> 13, CityName |-> "Mumbai"]] }

MicroMarketFeatures ==
  { Feature([MicroMarketID |-> 1, CityID |-> 13, MicroMarketName |-> "West"], GLine),
    Feature([MicroMarketID |-> 2, CityID |-> 13, MicroMarketName |-> "East"], GOther),
    Feature([MicroMarketID |-> 1, CityID |-> 14, MicroMarketName |-> "West"], GIn),
    Feature([CityID |-> 13, MicroMarketName |-> "West"], GIn),
    Feature([MicroMarketID |-> 1, CityID |-> 13], GIn),
    Feature([MicroMarketID |-> 2, CityID |-> 13, MicroMarketName |-> "East"], GNoPoints),
    [geometry |-> GIn] }

LocalityFeatures ==
  { Feature([LocalityID |-> 1, MicroMarketID |-> 1, CityID |-> 13, LocalityName |-> "A"], GIn),
    Feature([LocalityID |-> 1, MicroMarketID |-> 2, CityID |-> 13, LocalityName |-> "A"], GFar),
    Feature([LocalityID |-> 2, MicroMarketID |-> 3, CityID |-> 13, LocalityName |-> "B"], GIn),
    Feature([MicroMarketID |-> 1, CityID |-> 13, LocalityName |-> "A"], GIn),
    Feature([LocalityID |-> 1, MicroMarketID |-> 1, CityID |-> 13], GIn) }

FeaturesOf(fname) ==
  IF fname = "mumbai_city.geojson" THEN CityFeatures
  ELSE IF fname = "mumbai_micro_markets.geojson" THEN MicroMarketFeatures
  ELSE LocalityFeatures

FC(q) == [kind |-> "fc", features |-> q]

\* The files of a directory in which some file is missing or is JSON that is
\* not a FeatureCollection; the FeatureCollections in it hold no features.
BadDirectories ==
  { fs \in [FileNames -> {[kind |-> "missing"], [kind |-> "other"], FC(<<>>)}] :
      \E f \in FileNames : fs[f].kind # "fc" }

\* The files of a directory of three FeatureCollections.
Directory(qc, qm, ql) ==
  ("mumbai_city.geojson" :> FC(qc)) @@ ("mumbai_micro_markets.geojson" :> FC(qm))
    @@ ("mumbai_localities.geojson" :> FC(ql))

GeoStart ==
  /\ gpc = "load"
  /\ layers = <<>>
  /\ layer = 1
  /\ fi = 1
  /\ key_prop = <<>>
  /\ ids = {}
  /\ ids_seen = <<>>
  /\ errors = <<>>
  /\ warnings = <<>>
  /\ report = None

\* lines 56-63: the files loaded before load_fc raises (if it does), and the
\* errors of the missing files before it.
LoadUpTo(fs, n) ==
  LET L[i \in 0..n] ==
        IF i = 0 THEN [layers |-> <<>>, errors |-> <<>>, raised |-> FALSE]
        ELSE LET prev == L[i - 1]
                 f == REQUIRED[i].fname
             IN IF prev.raised THEN prev
                ELSE IF fs[f].kind = "missing"
                  THEN [prev EXCEPT !.errors = Append(@, [kind |-> "missing file", fname |-> f])]
                ELSE IF fs[f].kind = "other"
                  THEN [prev EXCEPT !.raised = TRUE]
                ELSE [prev EXCEPT !.layers = @ @@ (f :> fs[f].features)]
  IN L[n]

\* lines 49-67 on the files fs.
LoadFrom(fs) ==
  LET l == LoadUpTo(fs, Len(REQUIRED))
  IN /\ layers' = l.layers
     /\ errors' = l.errors
     /\ gpc' = IF l.raised THEN "aborted"
               ELSE IF l.errors # <<>> THEN "fatal" ELSE "layer"

\* lines 49-67: load the three files; exit 1 when one is missing.  The
\* directory holds three FeatureCollections of at most MaxFeatures features
\* together (at most one of them a city), or is one of BadDirectories.
LoadLayers ==
  /\ gpc = "load"
  /\ \/ \E fs \in BadDirectories : LoadFrom(fs)
     \/ \E nc \in 0..1 : \E nm \in 0..(MaxFeatures - nc) : \E nl \in 0..(MaxFeatures - nc - nm) :
          \E qc \in [1..nc -> CityFeatures], qm \in [1..nm -> MicroMarketFeatures],
             ql \in [1..nl -> LocalityFeatures] :
            LoadFrom(Directory(qc, qm, ql))
  /\ UNCHANGED <<layer, fi, key_prop, ids, ids_seen, warnings, report>>

\* lines 70-74: enter the loop body for the next layer.
BeginLayer ==
  /\ gpc = "layer"
  /\ layer <= Len(REQUIRED)
  /\ \E kp \in KeyPropChoices(Range(REQUIRED[layer].props)) :
       key_prop' = key_prop @@ (REQUIRED[layer].fname :> kp)
  /\ ids' = {}
  /\ fi' = 1
  /\ gpc' = "feature"
  /\ UNCHANGED <<layers, layer, ids_seen, errors, warnings, report>>

\* lines 75-88: one feature of the layer.
CheckFeature ==
  /\ gpc = "feature"
  /\ fi <= Len(layers[REQUIRED[layer].fname])
  /\ LET fname == REQUIRED[layer].fname
         need == Range(REQUIRED[layer].props)
         kp == key_prop[fname]
         ft == layers[fname][fi]
         props == PropsOrEmpty(ft)
         missing == Missing(need, props)
         geom == GeomOrEmpty(ft)
     IN IF missing # {}
        THEN /\ errors' = Append(errors, [kind |-> "missing props", fname |-> fname,
                                          index |-> fi - 1, missing |-> missing])
             /\ ids' = IdsAfter(ids, need, props, kp)
             /\ fi' = fi + 1
             /\ UNCHANGED <<gpc, warnings>>
        ELSE /\ errors' = IF props[kp] \in ids
                          THEN Append(errors, [kind |-> "duplicate", fname |-> fname,
                                               key_prop |-> kp, value |-> props[kp]])
                          ELSE errors
             /\ ids' = IdsAfter(ids, need, props, kp)
             /\ IF BboxRaises(geom)
                THEN gpc' = "aborted" /\ UNCHANGED <<fi, warnings>>
                ELSE /\ warnings' =
                          IF bbox_of_geom(geom) # None /\ ~InRange(Val(bbox_of_geom(geom)))
                          THEN Append(warnings, [kind |-> "out of range", fname |-> fname,
                                                 index |-> fi - 1])
                          ELSE warnings
                     /\ fi' = fi + 1
                     /\ UNCHANGED gpc
  /\ UNCHANGED <<layers, layer, key_prop, ids_seen, report>>

\* line 89: the layer is done.
EndLayer ==
  /\ gpc = "feature"
  /\ fi > Len(layers[REQUIRED[layer].fname])
  /\ ids_seen' = ids_seen @@ (REQUIRED[layer].fname :> ids)
  /\ layer' = layer + 1
  /\ gpc' = IF layer = Len(REQUIRED) THEN "cross" ELSE "layer"
  /\ UNCHANGED <<layers, fi, key_prop, ids, errors, warnings, report>>

\* line 92 raises: the first city feature has no "geometry", or its bbox raises.
CityBboxRaises(city_feats) ==
  /\ city_feats # <<>>
  /\ \/ "geometry" \notin DOMAIN city_feats[1]
     \/ BboxRaises(city_feats[1].geometry)

\* lines 94-95 raise: a micro-market feature without "properties",
\* "MicroMarketID" or "geometry", or whose bbox raises.
MmBboxesRaises(mm_feats) ==
  \E i \in DOMAIN mm_feats :
    \/ "properties" \notin DOMAIN mm_feats[i]
    \/ "MicroMarketID" \notin DOMAIN mm_feats[i].properties
    \/ "geometry" \notin DOMAIN mm_feats[i]
    \/ BboxRaises(mm_feats[i].geometry)

\* lines 94-95: MicroMarketID -> bbox; a later feature replaces an earlier one.
MmBboxes(mm_feats) ==
  LET idsOf == { mm_feats[i].properties.MicroMarketID : i \in DOMAIN mm_feats }
      last(id) == CHOOSE i \in DOMAIN mm_feats :
                    /\ mm_feats[i].properties.MicroMarketID = id
                    /\ \A j \in DOMAIN mm_feats :
                         mm_feats[j].properties.MicroMarketID = id => j <= i
  IN [id \in idsOf |-> bbox_of_geom(mm_feats[last(id)].geometry)]

\* lines 97-109: the loop over the localities, up to its end or to the
\* feature at which it raises.
CrossLoop(loc_feats, city_bbox, mm_bboxes, errs, warns) ==
  LET L[i \in 0..Len(loc_feats)] ==
        IF i = 0 THEN [errors |-> errs, warnings |-> warns, raised |-> FALSE]
        ELSE LET prev == L[i - 1]
                 ft == loc_feats[i]
             IN IF prev.raised THEN prev
                ELSE IF \/ "properties" \notin DOMAIN ft
                        \/ "LocalityID" \notin DOMAIN ft.properties
                        \/ "MicroMarketID" \notin DOMAIN ft.properties
                  THEN [prev EXCEPT !.raised = TRUE]
                ELSE IF ft.properties.MicroMarketID \notin DOMAIN mm_bboxes
                  THEN [prev EXCEPT !.errors =
                          Append(@, [kind |-> "unknown micro-market",
                                     loc_id |-> ft.properties.LocalityID,
                                     mm_id |-> ft.properties.MicroMarketID])]
                ELSE IF "geometry" \notin DOMAIN ft \/ BboxRaises(ft.geometry)
                  THEN [prev EXCEPT !.raised = TRUE]
                ELSE LET c == centroid_of_geom(ft.geometry)
                         loc_id == ft.properties.LocalityID
                         mm_id == ft.properties.MicroMarketID
                         w1 == IF c # None /\ city_bbox # None
                                  /\ ~point_in_bbox(Val(c), Val(city_bbox))
                               THEN Append(prev.warnings,
                                      [kind |-> "outside city", loc_id |-> loc_id])
                               ELSE prev.warnings
                     IN IF c = None THEN prev
                        ELSE IF mm_bboxes[mm_id] = None
                          \* point_in_bbox unpacks None: TypeError
                          THEN [prev EXCEPT !.warnings = w1, !.raised = TRUE]
                        ELSE IF ~point_in_bbox(Val(c), Val(mm_bboxes[mm_id]))
                          THEN [prev EXCEPT !.warnings =
                                  Append(w1, [kind |-> "outside micro-market",
                                              loc_id |-> loc_id, mm_id |-> mm_id])]
                        ELSE [prev EXCEPT !.warnings = w1]
  IN L[Len(loc_feats)]

\* lines 91-109: the cross-layer checks.
CrossCheck ==
  /\ gpc = "cross"
  /\ LET city_feats == layers["mumbai_city.geojson"]
         mm_feats == layers["mumbai_micro_markets.geojson"]
         loc_feats == layers["mumbai_localities.geojson"]
     IN IF CityBboxRaises(city_feats) \/ MmBboxesRaises(mm_feats)
        THEN gpc' = "aborted" /\ UNCHANGED <<errors, warnings>>
        ELSE LET city_bbox == IF city_feats # <<>>
                              THEN bbox_of_geom(city_feats[1].geometry) ELSE None
                 l == CrossLoop(loc_feats, city_bbox, MmBboxes(mm_feats), errors, warnings)
             IN /\ errors' = l.errors
                /\ warnings' = l.warnings
                /\ gpc' = IF l.raised THEN "aborted" ELSE "report"
  /\ UNCHANGED <<layers, layer, fi, key_prop, ids, ids_seen, report>>

\* lines 111-119: print the report.
Report ==
  /\ gpc = "report"
  /\ report' = Some([errors |-> errors, warnings |-> warnings])
  /\ gpc' = "done"
  /\ UNCHANGED <<layers, layer, fi, key_prop, ids, ids_seen, errors, warnings>>

NextAgg ==
  \/ ReadMetrics /\ UNCHANGED <<geoVars, dimVars>>
  \/ ProcessKey /\ UNCHANGED <<geoVars, dimVars>>
  \/ WritePaints /\ UNCHANGED <<geoVars, dimVars>>

NextGeo ==
  \/ LoadLayers /\ UNCHANGED <<aggVars, dimVars>>
  \/ BeginLayer /\ UNCHANGED <<aggVars, dimVars>>
  \/ CheckFeature /\ UNCHANGED <<aggVars, dimVars>>
  \/ EndLayer /\ UNCHANGED <<aggVars, dimVars>>
  \/ CrossCheck /\ UNCHANGED <<aggVars, dimVars>>
  \/ Report /\ UNCHANGED <<aggVars, dimVars>>

(***************************************************************************)
(* make_dims.py                                                            *)
(***************************************************************************)
\* Total number of rows in the micro-market and locality masters together.
MaxMasterRows == 3

\* str(v).strip() == "" for a field v
IsBlank(v) == v \in {"", " "}

\* cast(v) raises: int() and float() of None or of text that is no number.
CastRaises(cast, v) ==
  IF cast \in {"int", "float"} THEN v = NoField \/ ~IsIntLit(v) ELSE FALSE

\* cast(v), on a value it accepts.
CastValue(cast, v) ==
  IF cast \in {"int", "float"} THEN Some(IntOf(v))
  ELSE IF cast = "str" THEN Some(IF v = NoField THEN "None" ELSE v)
  ELSE IF v = NoField THEN None ELSE Some(v)

\* get_first(d, keys, default, cast): the first key of `keys` that the row
\* holds with a non-blank value the cast accepts; else the default.
get_first(d, keys, default, cast) ==
  LET F[i \in 1..(Len(keys) + 1)] ==
        IF i > Len(keys) THEN default
        ELSE IF keys[i] \in DOMAIN d /\ ~IsBlank(d[keys[i]]) /\ ~CastRaises(cast, d[keys[i]])
          THEN CastValue(cast, d[keys[i]])
        ELSE F[i + 1]
  IN F[1]

\* norm_mm
norm_mm(row) ==
  [ id |-> get_first(row, <<"MicroMarketID", "MICROMARKETID", "locationid", "LocationID",
                            "LOC_ID">>, None, "int"),
    name |-> get_first(row, <<"MicroMarketName", "MICROMARKETNAME", "locationname",
                              "LocationName", "NAME">>, Some("(Unnamed)"), "none"),
    cityId |-> get_first(row, <<"CityID", "CITYID", "cityid">>, None, "int") ]

\* mm_name_by_id.get(mm_id), with "(Unnamed)" for an id the dict lacks.
NameOfMm_default(m, mm_id) == IF mm_id \in DOMAIN m THEN m[mm_id] ELSE Some("(Unnamed)")

\* mm_name_by_id.get(mm_id)
NameOfMm(m, mm_id) == IF mm_id \in DOMAIN m THEN m[mm_id] ELSE None

\* f"Locality {loc_id}"
DefaultLocalityName(loc_id) ==
  "Locality " \o (IF loc_id = None THEN "None" ELSE ToString(Val(loc_id)))

\* norm_loc: the key microMarketName is set only under the test of line 66.
norm_loc(row, m) ==
  LET loc_id == get_first(row, <<"LocalityID", "LOCALITYID", "sublocationid",
                                 "SubLocationID">>, None, "int")
      name == get_first(row, <<"LocalityName", "LOCALITYNAME", "sublocationname",
                               "SubLocationName", "NAME">>,
                        Some(DefaultLocalityName(loc_id)), "none")
      city_id == get_first(row, <<"CityID", "CITYID", "cityid">>, None, "int")
      mm_id == get_first(row, <<"MicroMarketID", "MICROMARKETID", "locationid",
                                "LocationID">>, None, "int")
      d == [id |-> loc_id, name |-> name, cityId |-> city_id, microMarketId |-> mm_id]
  IN IF DOMAIN m # {} /\ mm_id # None
     THEN d @@ ("microMarketName" :> NameOfMm(m, Val(mm_id)))
     ELSE d

\* The strings the sorts compare, in code point order.
StringOrder ==
  << "(Unnamed)", "1", "2", "3", "APT", "Andheri", "Bandra", "Juhu", "Khar",
     "Locality 1", "Locality 2", "Locality 3", "VILLA" >>

StrRank(x) == CHOOSE i \in DOMAIN StringOrder : StringOrder[i] = x

\* Tuples of two integers, as Python compares them.
KeyLe(x, y) == x[1] < y[1] \/ (x[1] = y[1] /\ x[2] <= y[2])

\* list.sort(key=...): a stable sort; keys[i] is the key of q[i].
SortedBy(q, keys) ==
  LET Insert(t, x) ==
        LET pos == CHOOSE k \in 0..Len(t) :
                     /\ \A j \in 1..k : KeyLe(t[j].key, x.key)
                     /\ k < Len(t) => ~KeyLe(t[k + 1].key, x.key)
        IN SubSeq(t, 1, pos) \o <<x>> \o SubSeq(t, pos + 1, Len(t))
      S[i \in 0..Len(q)] ==
        IF i = 0 THEN <<>> ELSE Insert(S[i - 1], [item |-> q[i], key |-> keys[i]])
  IN [i \in DOMAIN q |-> S[Len(q)][i].item]

\* key=lambda x: (x["code"] is None, str(x["code"])) on entries whose code is not None
CodeKeys(q) == [i \in DOMAIN q |-> <<0, StrRank(Val(q[i].code))>>]

\* key=lambda x: (x["cityId"] if x["cityId"] is not None else 0, x["name"])
CityNameKeys(q) ==
  [i \in DOMAIN q |-> << IF q[i].cityId # None THEN Val(q[i].cityId) ELSE 0,
                         StrRank(Val(q[i].name)) >>]

\* lines 81-85 and 89-93: the entries of the rows that have a code.
CodeEntries(rows, codeKeys, labelKeys) ==
  LET entry(r) == LET code == get_first(r, codeKeys, None, "str")
                  IN [code |-> code, label |-> get_first(r, labelKeys, code, "none")]
      keep == { i \in DOMAIN rows : entry(rows[i]).code # None }
      F[i \in 0..Len(rows)] ==
        IF i = 0 THEN <<>>
        ELSE IF i \in keep THEN Append(F[i - 1], entry(rows[i])) ELSE F[i - 1]
  IN F[Len(rows)]

\* x or default, for a float read by get_first
OrDefault(o, default) == IF Truthy(o) THEN Val(o) ELSE default

\* lines 97-107: the first row with a CityID that is named mumbai or has ID 13.
\* Coordinates are in 1/10000 degree, whole numbers in the masters.
PickCity(rows) ==
  LET cid(r) == get_first(r, <<"CityID", "CITYID", "cityid">>, None, "int")
      name(r) == get_first(r, <<"CityName", "CITYNAME", "cityname", "name">>, None, "none")
      \* name.strip().lower() == "mumbai", on the names of the masters
      isMumbai(r) == name(r) # None /\ Val(name(r)) \in {"Mumbai", "mumbai", "MUMBAI", " Mumbai "}
      hit(r) == cid(r) # None /\ (isMumbai(r) \/ Val(cid(r)) = 13)
      scaled(o) == IF o = None THEN None ELSE Some(10000 * Val(o))
      rec(r) ==
        [ CityID |-> Val(cid(r)),
          CityName |-> IF name(r) # None /\ Val(name(r)) # "" THEN Val(name(r)) ELSE "Mumbai",
          center |-> << OrDefault(scaled(get_first(r, <<"CenterLon", "center_lon", "lon", "LON">>,
                                                   None, "float")), 728777),
                        OrDefault(scaled(get_first(r, <<"CenterLat", "center_lat", "lat", "LAT">>,
                                                   None, "float")), 190760) >>,
          zoom |-> OrDefault(scaled(get_first(r, <<"Zoom", "zoom">>, None, "float")), 100000) ]
  IN IF \E i \in DOMAIN rows : hit(rows[i])
     THEN Some(rec(rows[CHOOSE i \in DOMAIN rows :
                          hit(rows[i]) /\ \A j \in 1..(i - 1) : ~hit(rows[j])]))
     ELSE None

\* lines 110-115: the list and the dict after the rows, before the sort.
Micromarkets(rows) ==
  LET F[i \in 0..Len(rows)] ==
        IF i = 0 THEN [list |-> <<>>, names |-> <<>>]
        ELSE LET mm == norm_mm(rows[i])
                 prev == F[i - 1]
             IN IF mm.id = None THEN prev
                ELSE [ list |-> Append(prev.list, mm),
                       names |-> IF Val(mm.id) \in DOMAIN prev.names
                                 THEN [prev.names EXCEPT ![Val(mm.id)] = mm.name]
                                 ELSE prev.names @@ (Val(mm.id) :> mm.name) ]
  IN F[Len(rows)]

\* lines 119-123: the list after the rows, before the sort.
Localities(rows, m) ==
  LET F[i \in 0..Len(rows)] ==
        IF i = 0 THEN <<>>
        ELSE LET loc == norm_loc(rows[i], m)
             IN IF loc.id = None THEN F[i - 1] ELSE Append(F[i - 1], loc)
  IN F[Len(rows)]

(***************************************************************************)
(* The master CSVs the builder is run on.                                  *)
(***************************************************************************)
MicroMarketRows ==
  { [MicroMarketID |-> "1", MicroMarketName |-> "Bandra", CityID |-> "13"],
    [locationid |-> "2", locationname |-> "Andheri", cityid |-> "13"],
    [MicroMarketID |-> "x", MicroMarketName |-> "Bandra", CityID |-> "13"],
    [LOC_ID |-> "3", NAME |-> " ", CityID |-> ""],
    [MicroMarketID |-> NoField, LocationID |-> "1", MicroMarketName |-> "Andheri",
     CityID |-> "13"] }

LocalityRows ==
  { [LocalityID |-> "1", LocalityName |-> "Juhu", CityID |-> "13", MicroMarketID |-> "1"],
    [sublocationid |-> "2", sublocationname |-> "Khar", cityid |-> "13", locationid |-> "2"],
    [LocalityID |-> "3", CityID |-> "13", MicroMarketID |-> "3"],
    [LocalityID |-> "2", LocalityName |-> "Khar", CityID |-> "13", MicroMarketID |-> ""],
    [LocalityID |-> "x", LocalityName |-> "Juhu", CityID |-> "13", MicroMarketID |-> "1"],
    [LocalityID |-> "1", LocalityName |-> "Juhu", MicroMarketID |-> "x"] }

\* The BHK, asset-type and city masters.
OtherMasters ==
  { [bhk |-> <<>>, assets |-> <<>>, city |-> <<>>],
    [bhk |-> << [code |-> "2", label |-> "2"], [BHK |-> "1"] >>,
     assets |-> << [AssetType |-> "VILLA"], [code |-> "", label |-> "APT"],
                   [code |-> "APT", label |-> "APT"] >>,
     city |-> << [CityID |-> "x", CityName |-> "Mumbai"],
                 [CityID |-> "13", CityName |-> "Mumbai", CenterLon |-> "0", Zoom |-> "3"] >>],
    [bhk |-> << [code |-> " "] >>,
     assets |-> << [asset |-> "APT"] >>,
     city |-> << [CityID |-> "3", CityName |-> "Khar"], [cityid |-> "2", name |-> "mumbai"] >>] }

DimStart ==
  /\ dpc = "read"
  /\ masters = [bhk |-> <<>>, assets |-> <<>>, city |-> <<>>, mm |-> <<>>, loc |-> <<>>]
  /\ bhk = <<>>
  /\ assets = <<>>
  /\ city = None
  /\ micromarkets = <<>>
  /\ mm_name_by_id = <<>>
  /\ localities = <<>>
  /\ dims = None

\* lines 71-78: read the five masters; the micro-market and locality masters
\* hold at most MaxMasterRows rows together.
ReadMasters ==
  /\ dpc = "read"
  /\ \E o \in OtherMasters : \E nm \in 0..MaxMasterRows : \E nl \in 0..(MaxMasterRows - nm) :
       \E qm \in [1..nm -> MicroMarketRows], ql \in [1..nl -> LocalityRows] :
         masters' = [bhk |-> o.bhk, assets |-> o.assets, city |-> o.city, mm |-> qm, loc |-> ql]
  /\ dpc' = "bhk"
  /\ UNCHANGED <<bhk, assets, city, micromarkets, mm_name_by_id, localities, dims>>

\* lines 80-86
BuildBhk ==
  /\ dpc = "bhk"
  /\ LET q == CodeEntries(masters.bhk, <<"code", "CODE", "BHK", "bhk", "bhk_code">>,
                          <<"label", "LABEL", "name", "display", "BHKLabel">>)
     IN bhk' = SortedBy(q, CodeKeys(q))
  /\ dpc' = "assets"
  /\ UNCHANGED <<masters, assets, city, micromarkets, mm_name_by_id, localities, dims>>

\* lines 88-94
BuildAssets ==
  /\ dpc = "assets"
  /\ LET q == CodeEntries(masters.assets,
                          <<"code", "CODE", "AssetType", "ASSETTYPE", "asset", "asset_code">>,
                          <<"label", "LABEL", "name", "display", "AssetTypeName">>)
     IN assets' = SortedBy(q, CodeKeys(q))
  /\ dpc' = "city"
  /\ UNCHANGED <<masters, bhk, city, micromarkets, mm_name_by_id, localities, dims>>

\* lines 96-107
BuildCity ==
  /\ dpc = "city"
  /\ city' = PickCity(masters.city)
  /\ dpc' = "micromarkets"
  /\ UNCHANGED <<masters, bhk, assets, micromarkets, mm_name_by_id, localities, dims>>

\* lines 109-116
BuildMicromarkets ==
  /\ dpc = "micromarkets"
  /\ LET q == Micromarkets(masters.mm).list
     IN micromarkets' = SortedBy(q, CityNameKeys(q))
  /\ mm_name_by_id' = Micromarkets(masters.mm).names
  /\ dpc' = "localities"
  /\ UNCHANGED <<masters, bhk, assets, city, localities, dims>>

\* lines 118-124
BuildLocalities ==
  /\ dpc = "localities"
  /\ LET q == Localities(masters.loc, mm_name_by_id)
     IN localities' = SortedBy(q, CityNameKeys(q))
  /\ dpc' = "write"
  /\ UNCHANGED <<masters, bhk, assets, city, micromarkets, mm_name_by_id, dims>>

\* lines 126-136
WriteDims ==
  /\ dpc = "write"
  /\ dims' = Some([bhk |-> bhk, assets |-> assets, city |-> city,
                   micromarkets |-> micromarkets, localities |-> localities])
  /\ dpc' = "done"
  /\ UNCHANGED <<masters, bhk, assets, city, micromarkets, mm_name_by_id, localities>>

NextDims ==
  \/ ReadMasters /\ UNCHANGED <<aggVars, geoVars>>
  \/ BuildBhk /\ UNCHANGED <<aggVars, geoVars>>
  \/ BuildAssets /\ UNCHANGED <<aggVars, geoVars>>
  \/ BuildCity /\ UNCHANGED <<aggVars, geoVars>>
  \/ BuildMicromarkets /\ UNCHANGED <<aggVars, geoVars>>
  \/ BuildLocalities /\ UNCHANGED <<aggVars, geoVars>>
  \/ WriteDims /\ UNCHANGED <<aggVars, geoVars>>

\* Each script is run on its own, from the start of its main().
Init == AggStart /\ GeoStart /\ DimStart

SpecAgg == Init /\ [][NextAgg]_vars

SpecGeo == Init /\ [][NextGeo]_vars

SpecDims == Init /\ [][NextDims]_vars

(***************************************************************************)
(* Properties of the aggregator, stated on the raw CSV fields.             *)
(***************************************************************************)
Dict(metric) == IF metric = "asking" THEN A ELSE IF metric = "registered" THEN R ELSE N

InputKeys == DOMAIN A \cup DOMAIN R \cup DOMAIN N

\* The metric has a row for k whose value field is a finite number.
HasValue(metric, k) == k \in DOMAIN Dict(metric) /\ Dict(metric)[k].Value \in LitStrings

RawValue(metric, k) == LitValue[Dict(metric)[k].Value]

\* The metric has a row for k whose SampleSize is missing, empty or not an integer.
BadSample(metric, k) ==
  k \in DOMAIN Dict(metric) /\ Dict(metric)[k].SampleSize \notin LitStrings

\* The sample size the specification assigns: the integer, else 0.
RawSample(metric, k) ==
  IF k \in DOMAIN Dict(metric) /\ Dict(metric)[k].SampleSize \in LitStrings
  THEN LitValue[Dict(metric)[k].SampleSize] ELSE 0

KeyOfSummary(s) == <<s.month, s.asset, s.bhk, ToString(s.locality_id)>>

SummariesOf(k) == { i \in DOMAIN summaries : KeyOfSummary(summaries[i]) = k }

\* The points of key k in the array of its (metric, month, assetType, bhk).
PointsOf(P, metric, k) ==
  LET pk == <<metric, k[1], k[2], k[3]>>
  IN IF pk \in DOMAIN P
     THEN { i \in DOMAIN P[pk] : ToString(P[pk][i].id) = k[4] }
     ELSE {}

Ended == apc \in {"done", "aborted"}

\* C1 (as claimed): in every summary record written, yield is non-null only if
\* the registered price is > 0, the rent is present and both the registered
\* and the rent sample size are >= min_sample.
C1_YieldNeedsSamples ==
  \A i \in DOMAIN summaries :
    LET s == summaries[i]
    IN s.yield # None =>
         /\ s.median_registered # None /\ Val(s.median_registered) > 0
         /\ s.median_rent # None
         /\ s.counts.registered >= min_sample
         /\ s.counts.rent >= min_sample

\* C1 (amended): in every summary record written, yield is non-null exactly
\* when the registered price is > 0 and the rent is present and non-zero, and
\* it is then 12 * rent / registered; the sample sizes play no part.
C1_YieldIgnoresSamples ==
  \A i \in DOMAIN summaries :
    LET s == summaries[i]
        k == KeyOfSummary(s)
        ok == /\ HasValue("registered", k) /\ RawValue("registered", k) > 0
              /\ HasValue("rent", k) /\ RawValue("rent", k) # 0
    IN /\ (s.yield # None) <=> ok
       /\ ok => Val(s.yield) = [num |-> 12 * RawValue("rent", k),
                                den |-> RawValue("registered", k)]

\* A summary whose yield is set although a sample size is below min_sample.
C1_Witness ==
  \E i \in DOMAIN summaries :
    /\ summaries[i].yield # None
    /\ \/ summaries[i].counts.registered < min_sample
       \/ summaries[i].counts.rent < min_sample

\* The condition under which the specification allows a point of `metric` for k.
MayPaint(metric, k) ==
  IF metric = "yield"
  THEN /\ HasValue("registered", k) /\ RawValue("registered", k) > 0
       /\ HasValue("rent", k)
       /\ RawSample("registered", k) >= min_sample
       /\ RawSample("rent", k) >= min_sample
       /\ ~BadSample("registered", k) /\ ~BadSample("rent", k)
  ELSE /\ HasValue(metric, k)
       /\ RawSample(metric, k) >= min_sample
       /\ ~BadSample(metric, k)

PointsAllowed(P) ==
  \A pk \in DOMAIN P : \A i \in DOMAIN P[pk] :
    LET k == <<pk[2], pk[3], pk[4], ToString(P[pk][i].id)>>
    IN /\ k \in InputKeys
       /\ MayPaint(pk[1], k)
       /\ pk[1] # "yield" => P[pk][i].value = RawValue(pk[1], k)

\* C2: a point is in the array of (metric, month, assetType, bhk), in the
\* accumulator or in a written file, only if the value of that metric is
\* present for the point's key and the sample size is >= min_sample (for
\* yield: both sample sizes, and a registered price > 0).
C2_PaintOnlyIfEligible == PointsAllowed(paints) /\ PointsAllowed(choropleth)

\* Files were written that hold a yield point and an asking point.
C2_Witness ==
  /\ apc = "done"
  /\ \E pk \in DOMAIN choropleth : pk[1] = "yield"
  /\ \E pk \in DOMAIN choropleth : pk[1] = "asking"

\* C3 (as claimed): the run never fails, and when it has ended every key of
\* the three CSVs has exactly one summary record.
C3_OneSummaryPerKey ==
  /\ apc # "aborted"
  /\ Ended => \A k \in InputKeys : Cardinality(SummariesOf(k)) = 1

RentOnly(k) == k \in DOMAIN N /\ k \notin DOMAIN A /\ k \notin DOMAIN R

\* C4 (as claimed): when the run has ended, a key present only in the rent CSV
\* has its summary record with null asking, registered and yield, no asking,
\* registered or yield point, and exactly one rent point if its sample size
\* is >= min_sample.
C4_RentOnlyKey ==
  Ended =>
    \A k \in InputKeys : RentOnly(k) =>
      /\ \E i \in SummariesOf(k) :
           /\ summaries[i].median_asking = None
           /\ summaries[i].median_registered = None
           /\ summaries[i].yield = None
      /\ PointsOf(paints, "asking", k) = {}
      /\ PointsOf(paints, "registered", k) = {}
      /\ PointsOf(paints, "yield", k) = {}
      /\ RawSample("rent", k) >= min_sample =>
           Cardinality(PointsOf(paints, "rent", k)) = 1

\* C5 (as claimed): in a completed run, a row whose value is present and whose
\* sample size is exactly min_sample has a point in the array of its metric,
\* and a row whose sample size is min_sample - 1 has none.
C5_ThresholdInclusive ==
  apc = "done" =>
    \A metric \in Metrics : \A k \in DOMAIN Dict(metric) :
      /\ (HasValue(metric, k) /\ RawSample(metric, k) = min_sample)
           => PointsOf(choropleth, metric, k) # {}
      /\ RawSample(metric, k) = min_sample - 1
           => PointsOf(choropleth, metric, k) = {}

\* C6 (as claimed): a row whose SampleSize is missing, empty or not an integer
\* never makes the run fail; its key gets no point of that metric and, when
\* the run has ended, a summary record whose count for that metric is 0.
C6_BadSampleIsZero ==
  \A metric \in Metrics : \A k \in DOMAIN Dict(metric) :
    BadSample(metric, k) =>
      /\ apc # "aborted"
      /\ PointsOf(paints, metric, k) = {}
      /\ Ended => \E i \in SummariesOf(k) : summaries[i].counts[metric] = 0

\* The key (month, assetType, bhk, localityId) of the point P[pk][i].
KeyOfPoint(P, pk, i) == <<pk[2], pk[3], pk[4], ToString(P[pk][i].id)>>

\* C11: every yield point in a written choropleth file has, for the same key,
\* (a) a registered point and a rent point in the files of the same (month,
\* assetType, bhk), and (b) a summary record whose yield is non-null and equal
\* to the point's value, which is 12 * median_rent / median_registered of
\* that record.
C11_YieldPointConsistent ==
  \A pk \in DOMAIN choropleth : pk[1] = "yield" =>
    \A i \in DOMAIN choropleth[pk] :
      LET k == KeyOfPoint(choropleth, pk, i)
          y == choropleth[pk][i].value
      IN /\ PointsOf(choropleth, "registered", k) # {}
         /\ PointsOf(choropleth, "rent", k) # {}
         /\ SummariesOf(k) # {}
         /\ \A j \in SummariesOf(k) :
              LET s == summaries[j]
              IN /\ s.yield # None
                 /\ Val(s.yield) = y
                 /\ s.median_rent # None /\ s.median_registered # None
                 /\ y = [num |-> 12 * Val(s.median_rent), den |-> Val(s.median_registered)]

\* Files were written that hold a yield point of a key without an asking row,
\* while another key of the input has no yield point.
C11_Witness ==
  /\ apc = "done"
  /\ \E pk \in DOMAIN choropleth :
       /\ pk[1] = "yield"
       /\ \E i \in DOMAIN choropleth[pk] :
            KeyOfPoint(choropleth, pk, i) \in InputKeys \ DOMAIN A
  /\ \E k \in InputKeys : PointsOf(choropleth, "yield", k) = {}

(***************************************************************************)
(* Properties of the validator.                                            *)
(***************************************************************************)
LayerFile(l) == REQUIRED[l].fname

\* The features of layer l the per-layer pass has gone through (counting the
\* one at which it raised, whose ID it had already handled).
Processed(l) ==
  IF l < layer THEN Len(layers[LayerFile(l)])
  ELSE IF l = layer /\ gpc = "feature" THEN fi - 1
  ELSE IF l = layer /\ gpc = "aborted" /\ LayerFile(l) \in DOMAIN key_prop THEN fi
  ELSE 0

\* Feature i of layer l has every required property of the layer.
Complete(l, i) ==
  LET ft == layers[LayerFile(l)][i]
  IN /\ "properties" \in DOMAIN ft
     /\ \A j \in DOMAIN REQUIRED[l].props : REQUIRED[l].props[j] \in DOMAIN ft.properties

\* The complete features among the processed ones whose property p is v.
CompleteWith(l, p, v) ==
  { i \in 1..Processed(l) : Complete(l, i) /\ layers[LayerFile(l)][i].properties[p] = v }

MissingErrors(l, i) ==
  { j \in DOMAIN errors : /\ errors[j].kind = "missing props"
                          /\ errors[j].fname = LayerFile(l)
                          /\ errors[j].index = i - 1 }

DupErrors(l, v) ==
  { j \in DOMAIN errors : /\ errors[j].kind = "duplicate"
                          /\ errors[j].fname = LayerFile(l)
                          /\ errors[j].value = v }

\* The uniqueness set of layer l: `ids` while the layer is being checked,
\* ids_seen[fname] afterwards.
IdSet(l) == IF LayerFile(l) \in DOMAIN ids_seen THEN ids_seen[LayerFile(l)] ELSE ids

\* The values the ID properties take in the files.
IdValues == {1, 2, 3, 13, 14}

AllLoaded == DOMAIN layers = FileNames

\* The geometry of every feature is there and has a bounding box.
GeometriesFine ==
  \A f \in DOMAIN layers : \A i \in DOMAIN layers[f] :
    /\ "geometry" \in DOMAIN layers[f][i]
    /\ GeomType(layers[f][i].geometry) \in SupportedTypes
    /\ Coords(layers[f][i].geometry) # <<>>

\* C8 (as claimed): when the three files are FeatureCollections whose features
\* are malformed only in lacking required properties, the run never ends
\* before the report: it does not raise.
C8_MissingPropNeverAborts == (AllLoaded /\ GeometriesFine) => gpc # "aborted"

\* C9: in the per-layer pass, every processed feature that lacks a required
\* property has exactly one 'missing props' error (the others none), the
\* uniqueness set of the layer holds the key values of the complete features
\* only, and a key value has as many duplicate errors as it has complete
\* features after its first: a feature that lacks a property never makes a
\* later one a duplicate.
C9_IncompleteNotInIds ==
  \A l \in DOMAIN REQUIRED : LayerFile(l) \in DOMAIN key_prop =>
    LET kp == key_prop[LayerFile(l)]
    IN /\ \A i \in 1..Processed(l) :
            Cardinality(MissingErrors(l, i)) = IF Complete(l, i) THEN 0 ELSE 1
       /\ IdSet(l) = { v \in IdValues : CompleteWith(l, kp, v) # {} }
       /\ \A v \in IdValues :
            Cardinality(DupErrors(l, v)) =
              IF CompleteWith(l, kp, v) = {} THEN 0
              ELSE Cardinality(CompleteWith(l, kp, v)) - 1

\* A finished layer in which a feature lacking a property is followed by a
\* complete feature with the same key value, and no duplicate is reported.
C9_Witness ==
  \E l \in DOMAIN REQUIRED :
    /\ LayerFile(l) \in DOMAIN ids_seen
    /\ \E i, j \in 1..Processed(l) :
         LET kp == key_prop[LayerFile(l)]
             pi == PropsOrEmpty(layers[LayerFile(l)][i])
         IN /\ i < j /\ ~Complete(l, i) /\ Complete(l, j)
            /\ kp \in DOMAIN pi
            /\ pi[kp] = layers[LayerFile(l)][j].properties[kp]
            /\ DupErrors(l, pi[kp]) = {}
            /\ MissingErrors(l, i) # {}

\* The ID property a layer declares: the first of its required properties.
DeclaredID(l) == REQUIRED[l].props[1]

\* C10 (as claimed): once a layer is done, a value that k >= 1 of its complete
\* features carry as their ID has exactly k - 1 duplicate errors, and no
\* other value has one.
C10_DuplicatesPerID ==
  \A l \in DOMAIN REQUIRED : LayerFile(l) \in DOMAIN ids_seen =>
    \A v \in IdValues :
      Cardinality(DupErrors(l, v)) =
        IF CompleteWith(l, DeclaredID(l), v) = {} THEN 0
        ELSE Cardinality(CompleteWith(l, DeclaredID(l), v)) - 1

(***************************************************************************)
(* Properties of the dimension builder.                                    *)
(***************************************************************************)
\* The ids of the micro-markets of the document.
MicroMarketIds(doc) == { doc.micromarkets[i].id : i \in DOMAIN doc.micromarkets }

\* C7 (as claimed): in the document written, the microMarketId of every
\* locality is the id of a micro-market of the document.
C7_EveryLocalityResolves ==
  dims # None =>
    \A i \in DOMAIN Val(dims).localities :
      Val(dims).localities[i].microMarketId \in MicroMarketIds(Val(dims))

\* C7 (amended): in the document written, the microMarketId of every locality
\* that carries a non-null microMarketName is the id of a micro-market of the
\* document, and the name is the name the master gave that id last.
C7_NamedLocalityResolves ==
  dims # None =>
    \A i \in DOMAIN Val(dims).localities :
      LET L == Val(dims).localities[i]
      IN ("microMarketName" \in DOMAIN L /\ L.microMarketName # None) =>
           /\ L.microMarketId \in MicroMarketIds(Val(dims))
           /\ \E j \in DOMAIN Val(dims).micromarkets :
                /\ Val(dims).micromarkets[j].id = L.microMarketId
                /\ Val(dims).micromarkets[j].name = L.microMarketName

\* A document with a locality that resolves by name and one that dangles.
C7_Witness ==
  /\ dims # None
  /\ \E i \in DOMAIN Val(dims).localities :
       LET L == Val(dims).localities[i]
       IN "microMarketName" \in DOMAIN L /\ L.microMarketName # None
  /\ \E i \in DOMAIN Val(dims).localities :
       Val(dims).localities[i].microMarketId \notin MicroMarketIds(Val(dims))

====
